---- MODULE Spec2Model ----
(***************************************************************************)
(* GLOBALISE places explorer (location_search.py, location_mapper.py).     *)
(*                                                                         *)
(* Strings are sequences of one-character strings.  A score is an exact    *)
(* fraction [num, den] in lowest terms, so that equal scores are equal     *)
(* records.                                                                *)
(***************************************************************************)
EXTENDS Integers, Sequences, FiniteSets, TLC

VARIABLES
    s1, s2, ratio_out,              \* fuzzy_match_score: its arguments and result
    store, query, top_n,            \* search_locations: df, query, top_n
    called,                         \* whether search_locations has been called
    ranked, results, groups,        \* results_df after the sort, the returned
                                    \* frame, and the groups the page shows
    locations_df,                   \* st.session_state.locations_df
    uploaded_files_processed,       \* st.session_state.uploaded_files_processed
    started,                        \* whether the script has run in this session
    uploaded_file,                  \* the file uploader's value
    rerun_requested,                \* st.rerun() ended the last run
    pre_clean, post_clean,          \* the session table's columns before and
                                    \* after lines 131-136 of the last run
    usable, map_rows,               \* create_map: rows left by the coordinate
                                    \* cleaning, and the rows given to the map
    error,                          \* the exception the try block caught
    upload_branch                   \* what the upload block did

scoreVars == <<s1, s2, ratio_out>>

searchVars == <<store, query, top_n, called, ranked, results, groups>>

sessionVars == <<locations_df, uploaded_files_processed, started, uploaded_file,
                 rerun_requested, pre_clean, post_clean, usable, map_rows, error,
                 upload_branch>>

vars == <<scoreVars, searchVars, sessionVars>>

(***************************************************************************)
(* Exact fractions                                                         *)
(***************************************************************************)
RECURSIVE Gcd(_, _)
Gcd(x, y) == IF y = 0 THEN x ELSE Gcd(y, x % y)

Frac(n, d) == LET g == Gcd(n, d) IN [num |-> n \div g, den |-> d \div g]

FracAdd(p, q) == Frac(p.num * q.den + q.num * p.den, p.den * q.den)

FracGt(p, q) == p.num * q.den > q.num * p.den

FracGe(p, q) == p.num * q.den >= q.num * p.den

(***************************************************************************)
(* str.lower() on the characters the model uses                            *)
(***************************************************************************)
LowerChar(c) ==
    CASE c = "A" -> "a"
      [] c = "B" -> "b"
      [] c = "C" -> "c"
      [] OTHER -> c

Lower(s) == [i \in 1..Len(s) |-> LowerChar(s[i])]

(***************************************************************************)
(* difflib.SequenceMatcher(None, a, b): no junk, and no "popular" elements *)
(* below 200 characters.  Positions are 0-based and ranges half-open, as   *)
(* in difflib; a[i + 1] is Python's a[i].                                  *)
(***************************************************************************)
\* The longest block a[i:i+k] = b[j:j+k] inside a[alo:ahi], b[blo:bhi]; of
\* the longest ones, the one starting earliest in a, and of those the one
\* starting earliest in b.
find_longest_match(a, b, alo, ahi, blo, bhi) ==
    LET Blocks == {m \in (alo..(ahi - 1)) \X (blo..(bhi - 1)) \X (1..(ahi - alo)) :
                      /\ m[1] + m[3] <= ahi
                      /\ m[2] + m[3] <= bhi
                      /\ \A t \in 0..(m[3] - 1) : a[m[1] + t + 1] = b[m[2] + t + 1]}
        Better(m, o) == \/ m[3] > o[3]
                        \/ m[3] = o[3] /\ m[1] < o[1]
                        \/ m[3] = o[3] /\ m[1] = o[1] /\ m[2] <= o[2]
    IN  IF Blocks = {} THEN <<alo, blo, 0>>
        ELSE CHOOSE m \in Blocks : \A o \in Blocks : Better(m, o)

\* Total size of the blocks get_matching_blocks collects: the longest match,
\* then the same to its left and to its right.
RECURSIVE matching_size(_, _, _, _, _, _)
matching_size(a, b, alo, ahi, blo, bhi) ==
    LET m == find_longest_match(a, b, alo, ahi, blo, bhi)
        i == m[1]
        j == m[2]
        k == m[3]
    IN  IF k = 0 THEN 0
        ELSE k
             + (IF alo < i /\ blo < j
                THEN matching_size(a, b, alo, i, blo, j) ELSE 0)
             + (IF i + k < ahi /\ j + k < bhi
                THEN matching_size(a, b, i + k, ahi, j + k, bhi) ELSE 0)

\* SequenceMatcher.ratio(): 2.0 * matches / length, and 1.0 when both are empty.
ratio(a, b) ==
    LET length == Len(a) + Len(b)
    IN  IF length = 0 THEN Frac(1, 1)
        ELSE Frac(2 * matching_size(a, b, 0, Len(a), 0, Len(b)), length)

fuzzy_match_score(x, y) == ratio(Lower(x), Lower(y))

(***************************************************************************)
(* Specification SpecScore: fuzzy_match_score applied to any two strings.  *)
(***************************************************************************)
MaxLen == 3

Chars == {"a", "b", "c", "A"}

Strings == UNION {[1..n -> Chars] : n \in 0..MaxLen}

NoScore == [num |-> 0, den |-> 0]

ScoreIdle ==
    /\ s1 = <<>>
    /\ s2 = <<>>
    /\ ratio_out = NoScore

\* One call of fuzzy_match_score per behaviour.
Score(a, b) ==
    /\ ratio_out = NoScore
    /\ s1' = a
    /\ s2' = b
    /\ ratio_out' = fuzzy_match_score(a, b)
    /\ UNCHANGED <<searchVars, sessionVars>>

(***************************************************************************)
(* search_locations                                                        *)
(***************************************************************************)
\* A missing cell (pandas NaN) of a text column; str(NaN) is 'nan'.
NaNText == <<"NaN">>

Str(v) == IF v = NaNText THEN <<"n", "a", "n">> ELSE v

Tenth == Frac(1, 10)

\* Variant: a threshold of 0.2.
MinScoreLow == Frac(2, 10)

MinScore == Frac(3, 10)

\* Variant: the bonus capped at 1.0.
bonus_capped(label, pref_label, score) ==
    IF label = pref_label
    THEN (IF FracGt(FracAdd(score, Tenth), Frac(1, 1)) THEN Frac(1, 1)
          ELSE FracAdd(score, Tenth))
    ELSE score

\* Bonus if the label matches the preferred label.
bonus(label, pref_label, score) ==
    IF label = pref_label THEN FracAdd(score, Tenth) ELSE score

\* One entry of scores: the row's fields, its index in df, and its score.
score_row(df, idx, q) ==
    LET row == df[idx]
        label == Str(row.label)
        pref_label == Str(row.pref_label)
    IN  [idx |-> idx,
         glob_id |-> row.glob_id,
         label |-> label,
         pref_label |-> pref_label,
         label_type |-> row.label_type,
         Latitude |-> row.Latitude,
         Longitude |-> row.Longitude,
         score |-> bonus(label, pref_label, fuzzy_match_score(q, label))]

score_rows(df, q) == [idx \in 1..Len(df) |-> score_row(df, idx, q)]

\* The arrangements of a set of row indices.
RECURSIVE Orderings(_)
Orderings(S) ==
    IF S = {} THEN {<<>>}
    ELSE UNION {{<<x>> \o p : p \in Orderings(S \ {x})} : x \in S}

\* sort_values('score', ascending=False) with the default kind='quicksort',
\* which is not a stable sort: every arrangement of the rows in which the
\* scores do not increase is an outcome.
sort_values(scores) ==
    {[i \in 1..Len(scores) |-> scores[p[i]]] : p \in
        {p \in Orderings(1..Len(scores)) :
            \A i \in 1..(Len(scores) - 1) :
                FracGe(scores[p[i]].score, scores[p[i + 1]].score)}}

\* Variant: no cut.
head_all(rows, n) == rows

\* DataFrame.head(n) for n >= 0.
head(rows, n) == SubSeq(rows, 1, IF n < Len(rows) THEN n ELSE Len(rows))

PassesMinScore(r) == FracGt(r.score, MinScore)

\* results_df[results_df['score'] > 0.3]
filter_low_matches(rows) == SelectSeq(rows, PassesMinScore)

\* Variant: runs of equal adjacent values, as itertools.groupby would give.
RECURSIVE unique_runs(_)
unique_runs(ids) ==
    IF Len(ids) <= 1 THEN ids
    ELSE LET front == unique_runs(SubSeq(ids, 1, Len(ids) - 1))
             last == ids[Len(ids)]
         IN  IF front[Len(front)] = last THEN front ELSE Append(front, last)

\* results['glob_id'].unique(): the distinct values, in order of appearance.
RECURSIVE unique(_)
unique(ids) ==
    IF ids = <<>> THEN <<>>
    ELSE LET front == unique(SubSeq(ids, 1, Len(ids) - 1))
             last == ids[Len(ids)]
         IN  IF \E i \in 1..Len(front) : front[i] = last THEN front
             ELSE Append(front, last)

\* A missing glob_id: NaN == NaN is False, so no row of results matches it.
NaNId == "NaN"

id_results(rows, glob_id) ==
    LET Same(r) == glob_id # NaNId /\ r.glob_id = glob_id
    IN  SelectSeq(rows, Same)

\* The loop over unique_ids; best_match = id_results.iloc[0] raises IndexError
\* on an empty id_results.
group_results(rows) ==
    LET unique_ids == unique([i \in 1..Len(rows) |-> rows[i].glob_id])
    IN  [g \in 1..Len(unique_ids) |->
            [glob_id |-> unique_ids[g], id_results |-> id_results(rows, unique_ids[g])]]

(***************************************************************************)
(* create_map: the coordinate cleaning (also location_mapper.py 17-29)     *)
(***************************************************************************)
\* A missing cell of a coordinate or label_type column.
NaNCell == "NaN"

\* pd.to_numeric(..., errors='coerce') on the cells the model uses: a number
\* (in ten-thousandths), an infinity, or NaN for anything that does not parse.
to_numeric(cell) ==
    CASE cell = "31.1289" -> [kind |-> "num", val |-> 311289]
      [] cell = "53.2824" -> [kind |-> "num", val |-> 532824]
      [] cell = "0" -> [kind |-> "num", val |-> 0]
      [] cell = "0.0" -> [kind |-> "num", val |-> 0]
      [] cell = "inf" -> [kind |-> "inf", val |-> 0]
      [] OTHER -> [kind |-> "NaN", val |-> 0]

IsZero(x) == x.kind = "num" /\ x.val = 0

\* The rows of df (by index) left after lines 17-27.
usable_rows(rows) ==
    LET NotSentinel(i) == rows[i].Latitude # "Not available"
        latitude(i) == to_numeric(rows[i].Latitude)
        longitude(i) == to_numeric(rows[i].Longitude)
        NotNaN(i) == latitude(i).kind # "NaN" /\ longitude(i).kind # "NaN"
        NotOrigin(i) == ~(IsZero(latitude(i)) /\ IsZero(longitude(i)))
        all == [i \in 1..Len(rows) |-> i]
    IN  SelectSeq(SelectSeq(SelectSeq(all, NotSentinel), NotNaN), NotOrigin)

\* filtered_df = df[df['label_type'] == 'PREF']
pref_rows(rows, kept) ==
    LET IsPref(i) == rows[i].label_type = "PREF"
    IN  SelectSeq(kept, IsPref)

(***************************************************************************)
(* The table: its column names as read, and its rows.  A row holds NaN in  *)
(* a column its file did not have.                                         *)
(***************************************************************************)
\* str.strip() on the column names the model uses.
StripName(name) ==
    CASE name = " label" -> "label"
      [] name = "pref_label " -> "pref_label"
      [] name = " Latitude " -> "Latitude"
      [] OTHER -> name

\* str.contains('^Unnamed')
IsUnnamed(name) == name \in {"Unnamed: 0", "Unnamed: 7"}

\* df.columns = df.columns.str.strip(): the same table, renamed in place.
strip_columns(frame) ==
    [frame EXCEPT !.columns = [i \in 1..Len(frame.columns) |-> StripName(frame.columns[i])]]

\* df.loc[:, ~df.columns.str.contains('^Unnamed')]: a new table.
drop_unnamed(frame) ==
    LET Named(name) == ~IsUnnamed(name)
    IN  [frame EXCEPT !.columns = SelectSeq(frame.columns, Named)]

HasColumn(frame, name) == \E i \in 1..Len(frame.columns) : frame.columns[i] = name

\* pd.concat([a, b], ignore_index=True): the columns of a, then those b adds.
concat(a, b) ==
    LET New(name) == ~HasColumn(a, name)
    IN  [columns |-> a.columns \o SelectSeq(b.columns, New),
         rows |-> a.rows \o b.rows]

(***************************************************************************)
(* One run of the script: the try block (lines 130-224) and the upload     *)
(* block (lines 226-255).                                                  *)
(***************************************************************************)
NoError == [at |-> "none", kind |-> "none"]

Raised(at, kind) == [at |-> at, kind |-> kind]

\* Line 138: df['glob_id'].nunique().
load_error(df) ==
    IF ~HasColumn(df, "glob_id") THEN Raised("load", "KeyError") ELSE NoError

\* Line 150, create_map(df): the columns it reads, then deck, which is bound
\* only when filtered_df has rows.
create_map_error(df) ==
    IF \/ ~HasColumn(df, "Latitude")
       \/ ~HasColumn(df, "Longitude")
       \/ ~HasColumn(df, "label_type")
    THEN Raised("map", "KeyError")
    ELSE IF pref_rows(df.rows, usable_rows(df.rows)) = <<>>
    THEN Raised("map", "UnboundLocalError")
    ELSE NoError

\* Line 153, search_locations(df, ...): row['label'], row['pref_label'], and
\* sort_values('score') on a frame with no rows.
search_error(df) ==
    IF \/ Len(df.rows) = 0
       \/ ~HasColumn(df, "label")
       \/ ~HasColumn(df, "pref_label")
    THEN Raised("search", "KeyError")
    ELSE NoError

\* Line 163: id_results.iloc[0] on an empty id_results.
group_error(grouped) ==
    IF \E g \in 1..Len(grouped) : grouped[g].id_results = <<>>
    THEN Raised("group", "IndexError")
    ELSE NoError

\* Lines 215-219: df['pref_label'].nunique().
stats_error(df) ==
    IF ~HasColumn(df, "pref_label") THEN Raised("stats", "KeyError") ELSE NoError

\* file_id = f"{uploaded_file.name}_{uploaded_file.size}"
file_id(file) == <<file.name, file.size>>

\* Variant: the fingerprint is never looked up.
already_processed_never(id, processed) == FALSE

\* file_id not in st.session_state.uploaded_files_processed, negated.
already_processed(id, processed) == id \in processed

\* uploaded_file is None
NoFile == [name |-> "", size |-> 0, readable |-> FALSE,
           frame |-> [columns |-> <<>>, rows |-> <<>>]]

\* The try block on the widgets' values q and n.
TryBlock(q, n) ==
    LET session == strip_columns(locations_df)
        df == drop_unnamed(session)
        before_search == IF load_error(df) # NoError THEN load_error(df)
                         ELSE create_map_error(df)
        map_ran == /\ load_error(df) = NoError
                   /\ HasColumn(df, "Latitude")
                   /\ HasColumn(df, "Longitude")
        searching == before_search = NoError /\ q # <<>>
    IN  /\ pre_clean' = locations_df.columns
        /\ post_clean' = session.columns
        /\ store' = df.rows
        /\ query' = q
        /\ top_n' = n
        /\ usable' = IF map_ran THEN usable_rows(df.rows) ELSE <<>>
        /\ map_rows' = IF map_ran /\ HasColumn(df, "label_type")
                       THEN pref_rows(df.rows, usable_rows(df.rows)) ELSE <<>>
        /\ called' = searching
        /\ IF searching /\ search_error(df) = NoError
           THEN /\ \E scores \in {score_rows(df.rows, q)} :
                     \E sorted \in sort_values(scores) :
                        /\ ranked' = sorted
                        /\ results' = filter_low_matches(head(sorted, n))
                /\ groups' = group_results(results')
                /\ error' = IF group_error(groups') # NoError THEN group_error(groups')
                            ELSE stats_error(df)
           ELSE /\ ranked' = <<>>
                /\ results' = <<>>
                /\ groups' = <<>>
                /\ error' = IF before_search # NoError THEN before_search
                            ELSE IF searching THEN search_error(df)
                            ELSE stats_error(df)

\* The upload block on the uploader's value; the session table was renamed
\* in place by line 133 of the same run.
UploadBlock(file) ==
    LET session == strip_columns(locations_df)
        extra_df == drop_unnamed(strip_columns(file.frame))
    IN  /\ uploaded_file' = file
        /\ IF file = NoFile
           THEN /\ locations_df' = session
                /\ upload_branch' = "none"
                /\ rerun_requested' = FALSE
                /\ UNCHANGED uploaded_files_processed
           ELSE IF already_processed(file_id(file), uploaded_files_processed)
           THEN /\ locations_df' = session
                /\ upload_branch' = "already"
                /\ rerun_requested' = FALSE
                /\ UNCHANGED uploaded_files_processed
           ELSE IF ~file.readable
           THEN /\ locations_df' = session
                /\ upload_branch' = "error"
                /\ rerun_requested' = FALSE
                /\ UNCHANGED uploaded_files_processed
           ELSE /\ locations_df' = concat(session, extra_df)
                /\ uploaded_files_processed' =
                       uploaded_files_processed \cup {file_id(file)}
                /\ upload_branch' = "merged"
                /\ rerun_requested' = TRUE

ScriptRun(q, n, file) ==
    /\ TryBlock(q, n)
    /\ UploadBlock(file)
    /\ started' = TRUE
    /\ UNCHANGED scoreVars

(***************************************************************************)
(* Specification SpecSearch: search_locations and the grouping loop on any *)
(* table that reaches them.  create_map runs first and raises on a table   *)
(* with no rows, so the table searched is never empty.                     *)
(***************************************************************************)
MaxRows == 3

GlobIds == {"G1", "G2"}

LabelAb == <<"a", "b">>

LabelLong == <<"b", "c", "c", "c", "c", "c", "c">>

SearchLabels == {LabelAb, LabelLong}

LabelTypes == {"PREF", "ALT"}

Queries == {<<>>, <<"A", "b">>}

TopNs == 1..MaxRows

\* Rows of the data model: a PREF row carries its preferred label.
SearchRows ==
    {r \in [glob_id : GlobIds, label : SearchLabels, pref_label : SearchLabels,
            label_type : LabelTypes, Latitude : {"31.1289"}, Longitude : {"53.2824"}] :
        r.label_type = "PREF" => r.label = r.pref_label}

SearchStores == UNION {[1..n -> SearchRows] : n \in 1..MaxRows}

DefaultTopN == 10

SearchIdle ==
    /\ called = FALSE
    /\ query = <<>>
    /\ top_n = DefaultTopN
    /\ ranked = <<>>
    /\ results = <<>>
    /\ groups = <<>>

\* search_locations(df, "") with top_n left at its default:
\* if not query: return pd.DataFrame()
SearchEmpty ==
    /\ ~called
    /\ called' = TRUE
    /\ query' = <<>>
    /\ top_n' = DefaultTopN
    /\ ranked' = <<>>
    /\ results' = <<>>
    /\ groups' = <<>>
    /\ UNCHANGED <<store, scoreVars, sessionVars>>

Search(q, n) ==
    /\ ~called
    /\ called' = TRUE
    /\ q # <<>>
    /\ \E scores \in {score_rows(store, q)} :
          \E sorted \in sort_values(scores) :
             /\ ranked' = sorted
             /\ results' = filter_low_matches(head(sorted, n))
    /\ groups' = group_results(results')
    /\ query' = q
    /\ top_n' = n
    /\ UNCHANGED <<store, scoreVars, sessionVars>>

(***************************************************************************)
(* Specification Spec: a session.  locationdata.csv is any small table,    *)
(* with its columns as read; the user types a query, sets the number of    *)
(* results, and uploads files.                                             *)
(***************************************************************************)
MaxBaseRows == 1

MinResults == 5

StdColumns == <<"glob_id", "label", "pref_label", "label_type", "Latitude", "Longitude">>

SpacedColumns == <<"glob_id", " label", "pref_label ", "label_type", " Latitude ", "Longitude">>

Without(name) == LET Other(c) == c # name IN SelectSeq(StdColumns, Other)

BaseColumns ==
    {StdColumns, SpacedColumns, <<"Unnamed: 0">> \o StdColumns,
     Without("glob_id"), Without("label"), Without("pref_label"),
     Without("label_type"), Without("Latitude")}

Place(glob_id, label, pref_label, label_type, latitude, longitude) ==
    [glob_id |-> glob_id, label |-> label, pref_label |-> pref_label,
     label_type |-> label_type, Latitude |-> latitude, Longitude |-> longitude]

SessionRows ==
    {Place("G1", LabelAb, LabelAb, "PREF", "31.1289", "53.2824"),
     Place("G1", LabelLong, LabelAb, "ALT", "31.1289", "53.2824"),
     Place("G1", LabelAb, LabelLong, "PREF", "Not available", "Not available"),
     Place("G2", LabelLong, LabelLong, "PREF", "0", "0.0"),
     Place("G2", LabelAb, LabelAb, "PREF", "abc", "53.2824"),
     Place("G2", LabelLong, LabelAb, "PREF", "inf", "53.2824"),
     Place("G2", LabelAb, LabelLong, "PREF", "0", "53.2824")}

\* pd.read_csv: a row has no value in a column the file does not have.
ReadRow(columns, row) ==
    LET Has(name) == \E i \in 1..Len(columns) : StripName(columns[i]) = name
    IN  [glob_id |-> IF Has("glob_id") THEN row.glob_id ELSE NaNId,
         label |-> IF Has("label") THEN row.label ELSE NaNText,
         pref_label |-> IF Has("pref_label") THEN row.pref_label ELSE NaNText,
         label_type |-> IF Has("label_type") THEN row.label_type ELSE NaNCell,
         Latitude |-> IF Has("Latitude") THEN row.Latitude ELSE NaNCell,
         Longitude |-> IF Has("Longitude") THEN row.Longitude ELSE NaNCell]

read_csv(columns, rows) ==
    [columns |-> columns, rows |-> [i \in 1..Len(rows) |-> ReadRow(columns, rows[i])]]

BaseFrames ==
    {read_csv(columns, rows) :
        columns \in BaseColumns,
        rows \in UNION {[1..k -> SessionRows] : k \in 0..MaxBaseRows}}

Files ==
    {[name |-> "extra.csv", size |-> 120, readable |-> TRUE,
      frame |-> read_csv(StdColumns,
                         <<Place("G2", LabelAb, LabelAb, "PREF", "31.1289", "53.2824")>>)],
     [name |-> "extra.csv", size |-> 120, readable |-> TRUE,
      frame |-> read_csv(<<"Unnamed: 7">> \o SpacedColumns,
                         <<Place("G1", LabelLong, LabelLong, "ALT", "0", "0")>>)],
     [name |-> "broken.csv", size |-> 7, readable |-> FALSE,
      frame |-> [columns |-> <<>>, rows |-> <<>>]]}

TopNInputs == {MinResults, DefaultTopN}

SessionQueries == {<<>>, <<"A", "b">>}

SessionIdle ==
    /\ uploaded_files_processed = {}
    /\ started = FALSE
    /\ uploaded_file = NoFile
    /\ rerun_requested = FALSE
    /\ pre_clean = <<>>
    /\ post_clean = <<>>
    /\ usable = <<>>
    /\ map_rows = <<>>
    /\ error = NoError
    /\ upload_branch = "none"

\* The first run of the script, with the widgets at their defaults.
FirstRun ==
    /\ ~started
    /\ ScriptRun(<<>>, DefaultTopN, NoFile)

\* st.text_input: the user enters a place name.
EnterQuery(q) ==
    /\ started /\ ~rerun_requested
    /\ q # query
    /\ ScriptRun(q, top_n, uploaded_file)

\* st.number_input: the user sets Max results.
SetMaxResults(n) ==
    /\ started /\ ~rerun_requested
    /\ n # top_n
    /\ ScriptRun(query, n, uploaded_file)

\* st.file_uploader: the user picks a file.
UploadFile(file) ==
    /\ started /\ ~rerun_requested
    /\ file # uploaded_file
    /\ ScriptRun(query, top_n, file)

\* st.file_uploader: the user removes the file.
RemoveFile ==
    /\ started /\ ~rerun_requested
    /\ uploaded_file # NoFile
    /\ ScriptRun(query, top_n, NoFile)

\* st.rerun(): the script runs again with the widgets as they are.
Rerun ==
    /\ rerun_requested
    /\ ScriptRun(query, top_n, uploaded_file)

(***************************************************************************)
(* The specifications                                                      *)
(***************************************************************************)
InitScore ==
    /\ ScoreIdle
    /\ store = <<>>
    /\ SearchIdle
    /\ locations_df = [columns |-> <<>>, rows |-> <<>>]
    /\ SessionIdle

NextScore == \E a \in Strings, b \in Strings : Score(a, b)

SpecScore == InitScore /\ [][NextScore]_vars

InitSearch ==
    /\ store \in SearchStores
    /\ SearchIdle
    /\ ScoreIdle
    /\ locations_df = [columns |-> <<>>, rows |-> <<>>]
    /\ SessionIdle

NextSearch ==
    \/ SearchEmpty
    \/ \E q \in Queries, n \in TopNs : Search(q, n)

SpecSearch == InitSearch /\ [][NextSearch]_vars

\* After lines 123-127 of the first run.
Init ==
    /\ locations_df \in BaseFrames
    /\ SessionIdle
    /\ store = <<>>
    /\ SearchIdle
    /\ ScoreIdle

Next ==
    \/ FirstRun
    \/ \E q \in SessionQueries : EnterQuery(q)
    \/ \E n \in TopNInputs : SetMaxResults(n)
    \/ \E file \in Files : UploadFile(file)
    \/ RemoveFile
    \/ Rerun

Spec == Init /\ [][Next]_vars

(***************************************************************************)
(* The claims                                                              *)
(***************************************************************************)
\* Position in results of the row of df with index idx (0 when absent).
PosInResults(idx) ==
    IF \E j \in 1..Len(results) : results[j].idx = idx
    THEN CHOOSE j \in 1..Len(results) : results[j].idx = idx
    ELSE 0

AboveThreeTenths(score) == score.num * 10 > 3 * score.den

\* C1: processing an upload whose fingerprint (name and size) is already in
\* uploaded_files_processed leaves the record count and the set of processed
\* fingerprints as they were, and takes the "already uploaded" branch.
C1_ReuploadIsNoOp ==
    [][(uploaded_file' # NoFile
        /\ <<uploaded_file'.name, uploaded_file'.size>> \in uploaded_files_processed)
       => /\ Len(locations_df'.rows) = Len(locations_df.rows)
          /\ uploaded_files_processed' = uploaded_files_processed
          /\ upload_branch' = "already"]_vars

\* A run that met an uploaded file already merged, with the merged rows in the
\* table.
C1_Witness ==
    /\ upload_branch = "already"
    /\ uploaded_file # NoFile
    /\ <<uploaded_file.name, uploaded_file.size>> \in uploaded_files_processed
    /\ Len(locations_df.rows) = Len(store)
    /\ Len(locations_df.rows) >= 1

\* C2: search_locations cuts the ranking to its first top_n records and then
\* drops the scores <= 0.3: a row is returned iff it is among the first top_n
\* of the ranking and scores > 0.3, so at most top_n rows are returned and a
\* row ranked after top_n is absent whatever its score.
C2_TruncateThenFilter ==
    (called /\ query # <<>>) =>
        /\ Len(ranked) = Len(store)
        /\ Len(results) <= top_n
        /\ \A i \in 1..Len(ranked) :
              (\E j \in 1..Len(results) : results[j].idx = ranked[i].idx)
                  <=> (i <= top_n /\ AboveThreeTenths(ranked[i].score))
        /\ \A j \in 1..Len(results) : results[j] = ranked[j]

\* A row scoring > 0.3 was cut by top_n while others were returned.
C2_Witness ==
    /\ called
    /\ results # <<>>
    /\ \E i \in 1..Len(ranked) : i > top_n /\ AboveThreeTenths(ranked[i].score)

\* C3: every record search_locations returns has a final score > 0.3.
C3_AboveMinScore ==
    called => \A j \in 1..Len(results) : AboveThreeTenths(results[j].score)

\* Among the first top_n of the ranking a row scoring <= 0.3 was dropped and
\* another was returned.
C3_Witness ==
    /\ called
    /\ results # <<>>
    /\ \E i \in 1..Len(ranked) : i <= top_n /\ ~AboveThreeTenths(ranked[i].score)

\* C4: the returned records are in descending score order, records of equal
\* score in the order of their rows in the table, and of the records tied at
\* the top_n cut the ones kept are the earliest in the table.
C4_StableOrder ==
    (called /\ query # <<>>) =>
        /\ \A i, j \in 1..Len(results) :
              i < j => \/ FracGt(results[i].score, results[j].score)
                       \/ /\ results[i].score = results[j].score
                          /\ results[i].idx < results[j].idx
        /\ \A j \in 1..Len(results), r \in 1..Len(ranked) :
              (PosInResults(ranked[r].idx) = 0 /\ ranked[r].score = results[j].score)
                  => results[j].idx < ranked[r].idx

\* C5: of two rows with the same label, the one whose label is its pref_label
\* scores exactly 0.1 more than the one whose label is not, also above 1.0;
\* two rows with the same label that both match, or both do not, score the
\* same whatever their other fields.
C5_PreferenceBonus ==
    (called /\ query # <<>>) =>
        \A i, j \in 1..Len(ranked) :
            ranked[i].label = ranked[j].label =>
                LET matches_i == ranked[i].label = ranked[i].pref_label
                    matches_j == ranked[j].label = ranked[j].pref_label
                IN  IF matches_i = matches_j
                    THEN ranked[i].score = ranked[j].score
                    ELSE IF matches_i
                    THEN ranked[i].score = FracAdd(ranked[j].score, Frac(1, 10))
                    ELSE ranked[j].score = FracAdd(ranked[i].score, Frac(1, 10))

\* Two rows with the query's label: an ALT row whose label is its pref_label,
\* scoring 1.1, and a row whose label is not, scoring 1.0.
C5_Witness ==
    /\ called
    /\ \E i, j \in 1..Len(ranked) :
          /\ ranked[i].label = ranked[j].label
          /\ ranked[i].label = ranked[i].pref_label
          /\ ranked[i].label_type = "ALT"
          /\ ranked[j].label # ranked[j].pref_label
          /\ ranked[j].score = Frac(1, 1)
          /\ ranked[i].score = Frac(11, 10)

FiniteNumber(cell) == to_numeric(cell).kind = "num"

UsableLocation(row) ==
    /\ FiniteNumber(row.Latitude)
    /\ FiniteNumber(row.Longitude)
    /\ ~(to_numeric(row.Latitude).val = 0 /\ to_numeric(row.Longitude).val = 0)

AllColumns(columns) ==
    \A name \in {"glob_id", "label", "pref_label", "label_type", "Latitude", "Longitude"} :
        \E i \in 1..Len(columns) : columns[i] = name

\* C7: on a table with all its columns, the rows create_map keeps are exactly
\* those with a usable location, and a row without one is still returned by
\* the search when its score is > 0.3 (top_n is never below the table size
\* here).
C7_UsableLocations ==
    (started /\ AllColumns(post_clean)) =>
        /\ \A i \in 1..Len(store) :
              (\E k \in 1..Len(usable) : usable[k] = i) <=> UsableLocation(store[i])
        /\ query # <<>> =>
              \A i \in 1..Len(store) :
                  AboveThreeTenths(score_row(store, i, query).score)
                      => PosInResults(i) > 0

\* C8: fuzzy_match_score is symmetric: the score of (s1, s2) is the score of
\* (s2, s1).
C8_Symmetric == ratio_out # NoScore => ratio_out = fuzzy_match_score(s2, s1)

\* C9: a table missing label, pref_label, glob_id or label_type is reported
\* as an error by every run, before the search and whether or not a query
\* was entered.
C9_MissingColumnAtLoad ==
    started =>
        \A name \in {"label", "pref_label", "glob_id", "label_type"} :
            (~\E i \in 1..Len(post_clean) : post_clean[i] = name)
                => error.at \in {"load", "map"}

\* C10: the cleaning step of a run leaves the session table's columns as they
\* were.
C10_CleanLeavesSessionTable == started => pre_clean = post_clean

====
